---- MODULE Spec2Model ----
(***************************************************************************)
(* Model of App.py, the Slot Car Tire Search page.  The script is re-run   *)
(* from top to bottom on every widget interaction: it loads (cached) the   *)
(* table, reads the five sidebar widgets, narrows a copy of the table in   *)
(* five stages, renders the result and serialises it for download.         *)
(*                                                                         *)
(* A string is a sequence of one-character strings, so that substring and  *)
(* regular-expression matching, case folding and stripping are computed.   *)
(***************************************************************************)
EXTENDS Integers, Sequences, FiniteSets

\* ---------------------------------------------------------------- bounds
\* Number of data records of the source file that are loaded.
MaxRows == 3

\* ---------------------------------------------------------------- strings
Empty == << >>
Space == " "
\* Missing value marker of the CSV reader (a cell with no text).
NaN == << "<NaN>" >>

Range(s) == { s[i] : i \in 1..Len(s) }

Min(a, b) == IF a < b THEN a ELSE b

\* str.strip(): drop leading and trailing whitespace.
RECURSIVE LStrip(_)
LStrip(s) == IF s # Empty /\ Head(s) = Space THEN LStrip(Tail(s)) ELSE s

RECURSIVE RStrip(_)
RStrip(s) ==
  IF s # Empty /\ s[Len(s)] = Space THEN RStrip(SubSeq(s, 1, Len(s) - 1)) ELSE s

Strip(s) == RStrip(LStrip(s))

\* Case folding of the letters that occur in the data and the queries.
Lower(c) ==
  CASE c = "A" -> "a" [] c = "F" -> "f" [] c = "M" -> "m" [] c = "N" -> "n" [] c = "Q" -> "q"
    [] c = "R" -> "r" [] c = "S" -> "s" [] c = "X" -> "x"
    [] OTHER -> c

\* ---------------------------------------------------------------- regex
\* Series.str.contains(pat, case=False, na=False) keeps the default
\* regex=True: pat is compiled by re with IGNORECASE and searched for.
\* Over the characters used here the metacharacters are "." (any character)
\* and "(" (opens a group, and no ")" can close it: compilation fails).
re_compile_ok(pat) == "(" \notin Range(pat)

re_match_char(p, c) == p = "." \/ Lower(p) = Lower(c)

re_search(pat, s) ==
  \E i \in 1..(Len(s) + 1) :
     /\ i + Len(pat) - 1 <= Len(s)
     /\ \A j \in 1..Len(pat) : re_match_char(pat[j], s[i + j - 1])

\* ---------------------------------------------------------------- labels
\* Column labels, and the "All" option the sidebar puts before the values.
Brand == << "B", "r", "a", "n", "d" >>
Model == << "M", "o", "d", "e", "l" >>
Compound == << "C", "o", "m", "p", "o", "u", "n", "d" >>
Tire_Part == << "T", "i", "r", "e", "_", "P", "a", "r", "t" >>
OD_mm == << "O", "D", "_", "m", "m" >>
Width_mm == << "W", "i", "d", "t", "h", "_", "m", "m" >>
Position == << "P", "o", "s", "i", "t", "i", "o", "n" >>
Notes == << "N", "o", "t", "e", "s" >>
Source == << "S", "o", "u", "r", "c", "e" >>
Price == << "P", "r", "i", "c", "e" >>
All == << "A", "l", "l" >>

\* ---------------------------------------------------------------- data
\* Cell texts of the source file.
NSR == << "N", "S", "R" >>
nsr == << "n", "s", "r" >>
Silicone == << "S", "i", "l", "i", "c", "o", "n", "e" >>
Rubber == << "R", "u", "b", "b", "e", "r" >>
Rear == << "R", "e", "a", "r" >>
FrontRear == << "F", "r", "o", "n", "t", "/", "R", "e", "a", "r" >>
M4 == << "M", "4" >>
m4x == << "m", "4", "x" >>
T917 == << "9", "1", "7" >>
PartX == << "X" >>
Fits917 == << "f", " ", "9", "1", "7" >>
OD20 == << "2", "0" >>
W10 == << "1", "0" >>
QS == << "Q", "S" >>
P5 == << "5" >>

\* The records of Tire_master.csv, as label -> cell text; NaN is an empty cell.
Record(brand, model, compound, part, position, notes) ==
  [c \in {Brand, Model, Compound, Tire_Part, OD_mm, Width_mm, Position, Notes,
          Source, Price} |->
     CASE c = Brand -> brand [] c = Model -> model [] c = Compound -> compound
       [] c = Tire_Part -> part [] c = Position -> position [] c = Notes -> notes
       [] c = OD_mm -> OD20 [] c = Width_mm -> W10 [] c = Source -> QS
       [] OTHER -> P5]

Catalogue ==
  << Record(NSR, M4,   Silicone, T917,  Rear,      NaN),
     Record(nsr, T917, Rubber,   PartX, FrontRear, Fits917),
     Record(NaN, NaN,  Silicone, NaN,   NaN,       NaN),
     Record(NSR, m4x,  Rubber,   M4,    Rear,      T917) >>

NumRows == Min(MaxRows, Len(Catalogue))

\* A source file with the given header (labels as written in the file, in
\* file order); its records are the first NumRows records of the catalogue.
File(header) ==
  [header  |-> header,
   records |-> [i \in 1..NumRows |->
                  [k \in 1..Len(header) |-> Catalogue[i][Strip(header[k])]]]]

\* Headers: the display order; another order with padded labels and one more
\* column; and headers that lack a column a filter stage reads.
HeaderStandard ==
  << Brand, Model, Compound, Tire_Part, OD_mm, Width_mm, Position, Notes, Source >>
HeaderReordered ==
  << <<Space>> \o Model, Brand \o <<Space>>, Price, Compound, Position, Notes,
     Tire_Part >>
HeaderNoModel == << Brand, Compound, Tire_Part, Position, Notes >>
HeaderNoCompound == << Brand, Model, Tire_Part, Position, Notes >>

Files ==
  { File(h) : h \in { HeaderStandard, HeaderReordered, HeaderNoModel,
                      HeaderNoCompound } }

\* ---------------------------------------------------------------- frames
\* A DataFrame: the column labels in order and the rows in order, a row
\* being its index label and its cells in column order.
HasColumn(f, c) == c \in Range(f.columns)

ColPos(f, c) == CHOOSE k \in 1..Len(f.columns) : f.columns[k] = c

\* frame[c] of one row.
Cell(f, r, c) == r.cells[ColPos(f, c)]

Labels(f) == [i \in 1..Len(f.rows) |-> f.rows[i].idx]

\* pd.read_csv(..., dtype=str): RangeIndex 0..n-1, cells as text or NaN.
read_csv(file) ==
  [columns |-> file.header,
   rows    |-> [i \in 1..Len(file.records) |->
                  [idx |-> i - 1, cells |-> file.records[i]]]]

\* df.columns.str.strip()
strip_columns(f) ==
  [f EXCEPT !.columns = [k \in 1..Len(f.columns) |-> Strip(f.columns[k])]]

\* df.fillna("")
fillna(f) ==
  [f EXCEPT !.rows =
     [i \in 1..Len(f.rows) |->
        [f.rows[i] EXCEPT !.cells =
           [k \in 1..Len(f.rows[i].cells) |->
              IF f.rows[i].cells[k] = NaN THEN Empty ELSE f.rows[i].cells[k]]]]]

load_data(file) == fillna(strip_columns(read_csv(file)))

\* sorted(df[c].dropna().unique()): the values offered by a widget (their
\* order in the widget does not matter to the script).
unique(f, c) == { Cell(f, f.rows[i], c) : i \in 1..Len(f.rows) }

\* ---------------------------------------------------------------- state
VARIABLES
  df,                  \* the cached result of load_data()
  selected_compounds,  \* the multiselect's value, a set of option texts
  selected_brand,      \* the Brand selectbox's value
  model_search,        \* the Model text input, stripped
  selected_position,   \* the Position selectbox's value
  free_search,         \* the Notes / Part # text input, stripped
  status,              \* how the last run of the script ended
  filtered_df,         \* the frame the last run filtered down to
  found,               \* the number in "Found N matching tire options"
  shown,               \* the frame handed to st.dataframe, if any
  csv                  \* the records of the download, header first

widgets ==
  << selected_compounds, selected_brand, model_search, selected_position,
     free_search >>
view == << status, filtered_df, found, shown, csv >>
vars == << df, widgets, view >>

\* ---------------------------------------------------------------- masks
\* A boolean Series is modelled by the set of index labels where it is True.
isin(f, c, values) ==
  { f.rows[i].idx : i \in { j \in 1..Len(f.rows) : Cell(f, f.rows[j], c) \in values } }

eq(f, c, value) ==
  { f.rows[i].idx : i \in { j \in 1..Len(f.rows) : Cell(f, f.rows[j], c) = value } }

\* f[c].str.contains(pat, case=False, na=False), once pat has compiled.
str_contains(f, c, pat) ==
  { f.rows[i].idx :
      i \in { j \in 1..Len(f.rows) : re_search(pat, Cell(f, f.rows[j], c)) } }

\* A faulty f[mask] that hands the kept rows back in reverse order.
boolean_index_reversed(f, mask) ==
  LET kept == SelectSeq(f.rows, LAMBDA r : r.idx \in mask)
  IN  [f EXCEPT !.rows = [i \in 1..Len(kept) |-> kept[Len(kept) + 1 - i]]]

\* f[mask]: the rows whose label is True in the mask, in the frame's order.
boolean_index(f, mask) ==
  [f EXCEPT !.rows = SelectSeq(f.rows, LAMBDA r : r.idx \in mask)]

\* ---------------------------------------------------------------- stages
\* A stage takes the outcome so far: once an exception is raised the rest of
\* the script does not run.
NoFrame == [columns |-> << >>, rows |-> << >>]
Ok(f) == [status |-> "ok", frame |-> f]
Raise(e) == [status |-> e, frame |-> NoFrame]

copy(f) == f

\* A faulty compound stage that filters even when "All" is selected.
CompoundStageNoSentinel(o, sc) ==
  IF o.status # "ok" THEN o
  ELSE IF ~HasColumn(o.frame, Compound) THEN Raise("KeyError")
  ELSE Ok(boolean_index(o.frame, isin(o.frame, Compound, sc)))

\* if "All" not in selected_compounds: ... isin(selected_compounds)
CompoundStage(o, sc) ==
  IF o.status # "ok" \/ All \in sc THEN o
  ELSE IF ~HasColumn(o.frame, Compound) THEN Raise("KeyError")
  ELSE Ok(boolean_index(o.frame, isin(o.frame, Compound, sc)))

\* A faulty brand stage that filters even when "All" is selected.
BrandStageNoSentinel(o, sb) ==
  IF o.status # "ok" THEN o
  ELSE IF ~HasColumn(o.frame, Brand) THEN Raise("KeyError")
  ELSE Ok(boolean_index(o.frame, eq(o.frame, Brand, sb)))

\* if selected_brand != "All": ... == selected_brand
BrandStage(o, sb) ==
  IF o.status # "ok" \/ sb = All THEN o
  ELSE IF ~HasColumn(o.frame, Brand) THEN Raise("KeyError")
  ELSE Ok(boolean_index(o.frame, eq(o.frame, Brand, sb)))

\* A faulty model stage that reads the text of the previous run.
ModelStageStale(o, ms) ==
  IF o.status # "ok" \/ model_search = Empty THEN o
  ELSE IF ~HasColumn(o.frame, Model) THEN Raise("KeyError")
  ELSE IF ~re_compile_ok(model_search) THEN Raise("re.error")
  ELSE Ok(boolean_index(o.frame, str_contains(o.frame, Model, model_search)))

\* if model_search: ... ["Model"].str.contains(model_search, case=False)
ModelStage(o, ms) ==
  IF o.status # "ok" \/ ms = Empty THEN o
  ELSE IF ~HasColumn(o.frame, Model) THEN Raise("KeyError")
  ELSE IF ~re_compile_ok(ms) THEN Raise("re.error")
  ELSE Ok(boolean_index(o.frame, str_contains(o.frame, Model, ms)))

\* if selected_position != "All": ... ["Position"].str.contains(...)
PositionStage(o, sp) ==
  IF o.status # "ok" \/ sp = All THEN o
  ELSE IF ~HasColumn(o.frame, Position) THEN Raise("KeyError")
  ELSE IF ~re_compile_ok(sp) THEN Raise("re.error")
  ELSE Ok(boolean_index(o.frame, str_contains(o.frame, Position, sp)))

\* A faulty mask that joins the two fields with & instead of |.
FreeTextMaskAnd(f, fs) ==
  str_contains(f, Notes, fs) \cap str_contains(f, Tire_Part, fs)

\* mask = Notes.str.contains(free_search) | Tire_Part.str.contains(free_search)
FreeTextMask(f, fs) ==
  str_contains(f, Notes, fs) \cup str_contains(f, Tire_Part, fs)

\* A faulty free-text stage that indexes df instead of filtered_df.
FreeTextStageFromDf(o, fs) ==
  IF o.status # "ok" \/ fs = Empty THEN o
  ELSE IF ~HasColumn(o.frame, Notes) THEN Raise("KeyError")
  ELSE IF ~re_compile_ok(fs) THEN Raise("re.error")
  ELSE IF ~HasColumn(o.frame, Tire_Part) THEN Raise("KeyError")
  ELSE Ok(boolean_index(df, FreeTextMask(df, fs)))

\* if free_search: mask = ...; filtered_df = filtered_df[mask]
\* The operands are evaluated left to right: Notes is looked up, the
\* pattern compiled, then Tire_Part is looked up.
FreeTextStage(o, fs) ==
  IF o.status # "ok" \/ fs = Empty THEN o
  ELSE IF ~HasColumn(o.frame, Notes) THEN Raise("KeyError")
  ELSE IF ~re_compile_ok(fs) THEN Raise("re.error")
  ELSE IF ~HasColumn(o.frame, Tire_Part) THEN Raise("KeyError")
  ELSE Ok(boolean_index(o.frame, FreeTextMask(o.frame, fs)))

\* The APPLY FILTERS section: a copy of df narrowed by the five stages.
ApplyFilters(table, sc, sb, ms, sp, fs) ==
  FreeTextStage(
    PositionStage(
      ModelStage(
        BrandStage(
          CompoundStage(Ok(copy(table)), sc), sb), ms), sp), fs)

\* ---------------------------------------------------------------- display
\* display_cols, in the order the page shows them.
display_cols ==
  << Brand, Model, Compound, Tire_Part, OD_mm, Width_mm, Position, Notes, Source >>

\* [col for col in display_cols if col in filtered_df.columns]
existing_display_cols(f) == SelectSeq(display_cols, LAMBDA c : HasColumn(f, c))

\* filtered_df[display_cols].reset_index(drop=True)
display_frame(f) ==
  LET cols == existing_display_cols(f)
  IN  [columns |-> cols,
       rows    |-> [i \in 1..Len(f.rows) |->
                      [idx   |-> i - 1,
                       cells |-> [k \in 1..Len(cols) |-> Cell(f, f.rows[i], cols[k])]]]]

\* The text of a row label (the labels here have one digit).
str(n) == << << "0", "1", "2", "3", "4", "5", "6", "7", "8", "9" >>[n + 1] >>

\* A faulty export that leaves index=False out: the labels come first.
to_csv_with_index(f) ==
  << << Empty >> \o f.columns >> \o
  [i \in 1..Len(f.rows) |-> << str(f.rows[i].idx) >> \o f.rows[i].cells]

\* filtered_df.to_csv(index=False): the header record, then one record per
\* row with its cells in column order.  No cell here holds a delimiter or a
\* quote, so the writer quotes nothing.
to_csv(f) == << f.columns >> \o [i \in 1..Len(f.rows) |-> f.rows[i].cells]

\* ---------------------------------------------------------------- script
\* The sidebar reads df["Compound"], df["Brand"] and df["Position"] to build
\* the widget options; each lookup raises KeyError on a missing column.
CompoundWidgetBuilt(table) == HasColumn(table, Compound)
BrandWidgetBuilt(table) == CompoundWidgetBuilt(table) /\ HasColumn(table, Brand)
PositionWidgetBuilt(table) == BrandWidgetBuilt(table) /\ HasColumn(table, Position)

all_compounds(table) == unique(table, Compound)
all_brands(table) == unique(table, Brand)
all_positions(table) == unique(table, Position)

\* One run of the script below load_data(): sidebar, filters, results,
\* download.  A raised exception ends the run; nothing after it is rendered.
Script(table, sc, sb, ms, sp, fs) ==
  IF ~PositionWidgetBuilt(table)
  THEN [status |-> "KeyError", filtered_df |-> NoFrame, found |-> -1,
        shown |-> NoFrame, csv |-> << >>]
  ELSE
    LET o == ApplyFilters(table, sc, sb, ms, sp, fs)
    IN  IF o.status # "ok"
        THEN [status |-> o.status, filtered_df |-> NoFrame, found |-> -1,
              shown |-> NoFrame, csv |-> << >>]
        ELSE [status      |-> "ok",
              filtered_df |-> o.frame,
              found       |-> Len(o.frame.rows),
              shown       |-> IF o.frame.rows = << >> THEN NoFrame
                              ELSE display_frame(o.frame),
              csv         |-> to_csv(o.frame)]

\* What the user can type into a text input.
ModelTyped ==
  { Empty, << "m", "4" >>, << " ", "9", "1", "7", " " >>, << "." >>, << "(" >> }
FreeTyped ==
  { Empty, << "9", "1", "7" >>, << " ", "x" >>, << "." >>, << "(" >>, << " " >> }

\* ---------------------------------------------------------------- actions
Rerun(sc, sb, ms, sp, fs) ==
  LET run == Script(df, sc, sb, ms, sp, fs)
  IN  /\ status' = run.status
      /\ filtered_df' = run.filtered_df
      /\ found' = run.found
      /\ shown' = run.shown
      /\ csv' = run.csv
      /\ df' = df

Init ==
  /\ df \in { load_data(file) : file \in Files }
  /\ selected_compounds = { All }
  /\ selected_brand = All
  /\ model_search = Empty
  /\ selected_position = All
  /\ free_search = Empty
  /\ LET run == Script(df, selected_compounds, selected_brand, model_search,
                       selected_position, free_search)
     IN  /\ status = run.status
         /\ filtered_df = run.filtered_df
         /\ found = run.found
         /\ shown = run.shown
         /\ csv = run.csv

\* st.multiselect("Compound", options=["All"] + all_compounds)
SetCompounds ==
  /\ CompoundWidgetBuilt(df)
  /\ \E sel \in SUBSET ({ All } \cup all_compounds(df)) :
       /\ selected_compounds' = sel
       /\ UNCHANGED << selected_brand, model_search, selected_position, free_search >>
       /\ Rerun(sel, selected_brand, model_search, selected_position, free_search)

\* st.selectbox("Brand", options=["All"] + all_brands)
SetBrand ==
  /\ BrandWidgetBuilt(df)
  /\ \E b \in { All } \cup all_brands(df) :
       /\ selected_brand' = b
       /\ UNCHANGED << selected_compounds, model_search, selected_position, free_search >>
       /\ Rerun(selected_compounds, b, model_search, selected_position, free_search)

\* st.text_input("Model ...").strip()
SetModel ==
  /\ BrandWidgetBuilt(df)
  /\ \E t \in ModelTyped :
       /\ model_search' = Strip(t)
       /\ UNCHANGED << selected_compounds, selected_brand, selected_position, free_search >>
       /\ Rerun(selected_compounds, selected_brand, Strip(t), selected_position,
                free_search)

\* st.selectbox("Position", options=["All"] + all_positions)
SetPosition ==
  /\ PositionWidgetBuilt(df)
  /\ \E p \in { All } \cup all_positions(df) :
       /\ selected_position' = p
       /\ UNCHANGED << selected_compounds, selected_brand, model_search, free_search >>
       /\ Rerun(selected_compounds, selected_brand, model_search, p, free_search)

\* st.text_input("Search in Notes / Part #").strip()
SetFree ==
  /\ PositionWidgetBuilt(df)
  /\ \E t \in FreeTyped :
       /\ free_search' = Strip(t)
       /\ UNCHANGED << selected_compounds, selected_brand, model_search, selected_position >>
       /\ Rerun(selected_compounds, selected_brand, model_search, selected_position,
                Strip(t))

Next == SetCompounds \/ SetBrand \/ SetModel \/ SetPosition \/ SetFree

Spec == Init /\ [][Next]_vars

\* ================================================================ claims
\* Shorthands for the current state.
FieldOf(i, c) == Cell(df, df.rows[i], c)
KeptLabels == Range(Labels(filtered_df))
NoRestriction ==
  /\ All \in selected_compounds
  /\ selected_brand = All
  /\ model_search = Empty
  /\ selected_position = All
  /\ free_search = Empty

\* The five stage predicates of one row of the loaded table.
CompoundPredicate(i) ==
  All \in selected_compounds \/ FieldOf(i, Compound) \in selected_compounds
BrandPredicate(i) == selected_brand = All \/ FieldOf(i, Brand) = selected_brand
ModelPredicate(i) ==
  model_search = Empty \/ re_search(model_search, FieldOf(i, Model))
PositionPredicate(i) ==
  selected_position = All \/ re_search(selected_position, FieldOf(i, Position))
FreeTextPredicate(i) ==
  \/ free_search = Empty
  \/ re_search(free_search, FieldOf(i, Notes))
  \/ re_search(free_search, FieldOf(i, Tire_Part))

\* The stages applied in another order.
StageAt(k, o) ==
  CASE k = 1 -> CompoundStage(o, selected_compounds)
    [] k = 2 -> BrandStage(o, selected_brand)
    [] k = 3 -> ModelStage(o, model_search)
    [] k = 4 -> PositionStage(o, selected_position)
    [] OTHER -> FreeTextStage(o, free_search)

RECURSIVE ApplyInOrder(_, _)
ApplyInOrder(order, o) ==
  IF order = << >> THEN o ELSE ApplyInOrder(Tail(order), StageAt(Head(order), o))

Stages == 1..Len(<< "Compound", "Brand", "Model", "Position", "FreeText" >>)
StageOrders ==
  { p \in [Stages -> Stages] : \A a, b \in Stages : a # b => p[a] # p[b] }

C2_Subsequence ==
  status = "ok" =>
    /\ filtered_df.columns = df.columns
    /\ \A i \in 1..Len(filtered_df.rows) :
         /\ filtered_df.rows[i].idx \in 0..(Len(df.rows) - 1)
         /\ filtered_df.rows[i] = df.rows[filtered_df.rows[i].idx + 1]
    /\ \A i, j \in 1..Len(filtered_df.rows) :
         i < j => filtered_df.rows[i].idx < filtered_df.rows[j].idx

\* Two rows are kept and a row between them is dropped.
C2_Witness ==
  /\ status = "ok"
  /\ \E a, b, c \in 0..(Len(df.rows) - 1) :
       /\ a < b /\ b < c
       /\ a \in KeptLabels /\ b \notin KeptLabels /\ c \in KeptLabels

\* C7: with "All" among the selected compounds, brand "All", position "All"
\* and both text inputs empty, on a table that has the Compound, Brand and
\* Position columns, the run completes and the filtered frame is the loaded
\* table: same columns, same rows, same order.
C7_NoRestrictionIdentity ==
  (PositionWidgetBuilt(df) /\ NoRestriction) =>
     status = "ok" /\ filtered_df = df

\* The user has added a compound next to "All"; nothing restricts.
C7_Witness ==
  /\ NoRestriction
  /\ selected_compounds = { All, Silicone }
  /\ status = "ok"
  /\ filtered_df = df
  /\ Len(df.rows) = NumRows

\* The conjunction of the stage predicates other than stage k.
Others(k, i) ==
  /\ k = 1 \/ CompoundPredicate(i)
  /\ k = 2 \/ BrandPredicate(i)
  /\ k = 3 \/ ModelPredicate(i)
  /\ k = 4 \/ PositionPredicate(i)
  /\ k = 5 \/ FreeTextPredicate(i)

\* Stage k lets every row through: what is kept is decided by the others.
PassesThrough(k) ==
  \A i \in 1..Len(df.rows) : df.rows[i].idx \in KeptLabels <=> Others(k, i)

\* C3 as stated: a stage whose criterion is empty (no compound selected, the
\* empty brand, the empty position, an empty model text, an empty free text)
\* lets every row through.
C3_EmptyMeansNoRestriction ==
  status = "ok" =>
    /\ selected_compounds = {} => PassesThrough(1)
    /\ selected_brand = Empty => PassesThrough(2)
    /\ model_search = Empty => PassesThrough(3)
    /\ selected_position = Empty => PassesThrough(4)
    /\ free_search = Empty => PassesThrough(5)

\* C3 amended: a stage lets every row through when its criterion is the value
\* the script tests for: "All" among the selected compounds, brand "All",
\* position "All" (and also the empty position), an empty model text, an
\* empty free text.  With no compound selected no row is kept; the empty
\* brand keeps the rows whose Brand is empty and no other.
C3_SentinelMeansNoRestriction ==
  status = "ok" =>
    /\ All \in selected_compounds => PassesThrough(1)
    /\ selected_brand = All => PassesThrough(2)
    /\ model_search = Empty => PassesThrough(3)
    /\ selected_position \in { All, Empty } => PassesThrough(4)
    /\ free_search = Empty => PassesThrough(5)
    /\ selected_compounds = {} => filtered_df.rows = << >>
    /\ selected_brand = Empty =>
         \A i \in 1..Len(df.rows) :
            df.rows[i].idx \in KeptLabels <=>
              (FieldOf(i, Brand) = Empty /\ Others(2, i))

\* The empty brand and the empty position are selected: the rows with an
\* empty Brand are kept, whatever their Position, and the others dropped.
C3_Witness ==
  /\ status = "ok"
  /\ selected_brand = Empty
  /\ selected_position = Empty
  /\ All \in selected_compounds
  /\ filtered_df.rows # << >>
  /\ Len(filtered_df.rows) < Len(df.rows)

\* C4: on a table that has every column the stages read, filtering never
\* raises, whatever text is typed; criteria that match no row give an empty
\* result.
C4_FilteringNeverRaises ==
  (\A c \in { Compound, Brand, Model, Position, Notes, Tire_Part } :
      HasColumn(df, c)) => status = "ok"

\* C5: a column that a stage reads and the table lacks does not make the
\* program raise.
C5_AbsentColumnNeverRaises == status # "KeyError"

\* s contains q as a literal substring, letters compared without case.
ContainsLiteral(s, q) ==
  \E i \in 1..(Len(s) + 1) :
     /\ i + Len(q) - 1 <= Len(s)
     /\ \A j \in 1..Len(q) : Lower(q[j]) = Lower(s[i + j - 1])

\* C6: the Model, Position and free-text stages keep a row iff the field
\* contains the text literally, compared case-insensitively; the Compound and
\* Brand stages compare exactly.
C6_LiteralSubstring ==
  status = "ok" =>
    \A i \in 1..Len(df.rows) :
       df.rows[i].idx \in KeptLabels <=>
         /\ CompoundPredicate(i)
         /\ BrandPredicate(i)
         /\ model_search = Empty \/ ContainsLiteral(FieldOf(i, Model), model_search)
         /\ \/ selected_position = All
            \/ ContainsLiteral(FieldOf(i, Position), selected_position)
         /\ \/ free_search = Empty
            \/ ContainsLiteral(FieldOf(i, Notes), free_search)
            \/ ContainsLiteral(FieldOf(i, Tire_Part), free_search)

\* The criteria after a step are the criteria before it made more
\* restrictive: each is unchanged or was "no restriction" before, and a
\* compound selection without "All" only shrinks.
MoreRestrictive ==
  /\ \/ All \in selected_compounds
     \/ (All \notin selected_compounds' /\ selected_compounds' \subseteq selected_compounds)
  /\ selected_brand = All \/ selected_brand' = selected_brand
  /\ model_search = Empty \/ model_search' = model_search
  /\ selected_position = All \/ selected_position' = selected_position
  /\ free_search = Empty \/ free_search' = free_search

\* C8: when a step makes the criteria more restrictive and both runs
\* complete, every row of the new result is a row of the old result.
C8_ConjunctiveNarrowing ==
  [][ (status = "ok" /\ status' = "ok" /\ MoreRestrictive)
        => KeptLabels' \subseteq KeptLabels ]_vars

\* Two text criteria have been added to otherwise unrestricted criteria and
\* the result is a proper, non-empty part of the table.
C8_Witness ==
  /\ status = "ok"
  /\ All \in selected_compounds
  /\ selected_brand = All
  /\ selected_position = All
  /\ model_search # Empty
  /\ free_search # Empty
  /\ filtered_df.rows # << >>
  /\ Len(filtered_df.rows) < Len(df.rows)

\* C9 as stated: the download has the columns of the displayed table, in the
\* same order, and the displayed rows; the count is the number of rows.
C9_ExportMirrorsDisplay ==
  status = "ok" =>
    /\ Head(csv) = shown.columns
    /\ Tail(csv) = [i \in 1..Len(shown.rows) |-> shown.rows[i].cells]
    /\ found = Len(csv) - 1

\* C9 amended: the download holds the filtered rows, in order, with every
\* column of the loaded table in the table's order and no index column; the
\* count is the number of those rows; the displayed table has the same rows
\* in the same order restricted to the display columns the table has, in
\* display order, each cell equal to the download's cell of that row and
\* column; when no row is kept no table is displayed and the download is the
\* header alone.
C9_ExportIsFilteredTable ==
  status = "ok" =>
    /\ found = Len(filtered_df.rows)
    /\ Len(csv) = found + 1
    /\ Head(csv) = df.columns
    /\ \A i \in 1..found : csv[i + 1] = filtered_df.rows[i].cells
    /\ found = 0 => shown = NoFrame
    /\ found > 0 =>
         /\ shown.columns = SelectSeq(display_cols, LAMBDA c : c \in Range(df.columns))
         /\ Len(shown.rows) = found
         /\ \A i \in 1..found :
              /\ shown.rows[i].idx = i - 1
              /\ \A k \in 1..Len(shown.columns) :
                   \E m \in 1..Len(Head(csv)) :
                      /\ Head(csv)[m] = shown.columns[k]
                      /\ csv[i + 1][m] = shown.rows[i].cells[k]

\* Some rows are kept, some dropped, and the table's columns are not the
\* displayed columns.
C9_Witness ==
  /\ status = "ok"
  /\ found > 0
  /\ found < Len(df.rows)
  /\ shown.columns # df.columns
  /\ Head(csv) # shown.columns

====
